---- MODULE Spec2Model ----
(***************************************************************************)
(* Model of the Forex signal bot (src/main.py): the indicator library,     *)
(* build_signal with its duplicate-suppression gate, the run_scan          *)
(* orchestrator with its pair rotation, and main's startup scan followed   *)
(* by the interval scheduler.                                              *)
(*                                                                         *)
(* Floats are modelled in fixed point: a finite float x is Num(v) with     *)
(* v = floor(x * FP); not-a-number and the infinities are values of their  *)
(* own, and the arithmetic follows IEEE-754 as numpy applies it to a       *)
(* float64 column (a division by zero raises nothing: it yields an         *)
(* infinity, or NaN for 0/0; every comparison with NaN is false).          *)
(* Prices are integers counted in points (1 point = 0.0001).               *)
(***************************************************************************)
EXTENDS Integers, Sequences, FiniteSets, TLC

\* ------------------------------------------------------------------------
\* Model bounds
\* ------------------------------------------------------------------------
\* fixed-point scale of the float model
FP == 1000
\* largest number of configured pairs in the gate specification (Spec)
MaxGatePairs == 2
\* longest close series handed to rsi, and the period of its step patterns
MaxRsiLen == 16
PatLen == 3
\* largest number of configured pairs in the scan specification (SpecScan)
MaxScanPairs == 2
\* largest number of configured pairs in the rotation specification (SpecRot)
MaxPairs == 13
\* worker threads of the scheduler's pool that the model distinguishes
MaxWorkers == 2

\* ------------------------------------------------------------------------
\* Program constants (src/main.py lines 22-48)
\* ------------------------------------------------------------------------
EMA_FAST == 20
EMA_SLOW == 50
MACD_FAST == 12
MACD_SLOW == 26
MACD_SIGNAL == 9
RSI_LEN == 14
RSI_BUY_MIN == 40
RSI_BUY_MAX == 65
RSI_SELL_MIN == 35
RSI_SELL_MAX == 60
ADX_LEN == 14
ADX_MIN == 20
ATR_LEN == 14
\* the four risk multipliers are counted in tenths: 1.0, 1.0, 1.8, 2.5
ATR_SL_MULT == 10
TP1_MULT == 10
TP2_MULT == 18
TP3_MULT == 25
PAIRS_PER_RUN == 6
\* build_signal's margin above the largest window (line 217)
WARMUP_MARGIN == 5
\* the ATR percentile filter: tail(100), at least 20 values, quantile 0.2
ATR_TAIL == 100
ATR_MIN_COUNT == 20
\* 1 / 0.2, the quantile of the ATR filter
ATR_QUANTILE_INV == 5
\* the extension limit 0.003, counted in thousandths
MAX_EXT_PERMILLE == 3
\* APScheduler's default max_instances of a job added without that argument
MaxInstances == 1

\* ------------------------------------------------------------------------
\* The float model
\* ------------------------------------------------------------------------
Num(v) == [k |-> "num", v |-> v]
NaN == [k |-> "nan", v |-> 0]
PInf == [k |-> "inf", v |-> 1]
NInf == [k |-> "inf", v |-> -1]

isna(a) == a.k = "nan"
IsNum(a) == a.k = "num"
Sign(n) == IF n > 0 THEN 1 ELSE IF n < 0 THEN -1 ELSE 0
AbsInt(n) == IF n < 0 THEN -n ELSE n
Inf(s) == [k |-> "inf", v |-> s]

\* a total order key of the non-NaN values
Key(a) == IF a.k = "inf" THEN a.v * 2000000000 ELSE a.v

FNeg(a) == IF isna(a) THEN NaN ELSE [k |-> a.k, v |-> -a.v]

FAdd(a, b) ==
    IF isna(a) \/ isna(b) THEN NaN
    ELSE IF a.k = "inf" /\ b.k = "inf" THEN (IF a.v = b.v THEN a ELSE NaN)
    ELSE IF a.k = "inf" THEN a
    ELSE IF b.k = "inf" THEN b
    ELSE Num(a.v + b.v)

FSub(a, b) == FAdd(a, FNeg(b))

FAbs(a) == IF isna(a) THEN NaN ELSE [k |-> a.k, v |-> AbsInt(a.v)]

\* c * a for an integer c
FScale(c, a) ==
    IF isna(a) THEN NaN
    ELSE IF a.k = "inf" THEN (IF c = 0 THEN NaN ELSE Inf(Sign(c) * a.v))
    ELSE Num(c * a.v)

\* a / c for a positive integer c
FDivInt(a, c) == IF IsNum(a) THEN Num(a.v \div c) ELSE a

\* a / b as numpy divides two float64 values: no exception, x/0 is an
\* infinity and 0/0 is NaN
FDiv(a, b) ==
    IF isna(a) \/ isna(b) THEN NaN
    ELSE IF b.k = "inf" THEN (IF a.k = "inf" THEN NaN ELSE Num(0))
    ELSE IF a.k = "inf" THEN Inf(a.v * (IF b.v < 0 THEN -1 ELSE 1))
    ELSE IF b.v = 0 THEN (IF a.v = 0 THEN NaN ELSE Inf(Sign(a.v)))
    ELSE Num((a.v * FP) \div b.v)

FLt(a, b) == ~isna(a) /\ ~isna(b) /\ Key(a) < Key(b)
FLe(a, b) == ~isna(a) /\ ~isna(b) /\ Key(a) <= Key(b)
FGt(a, b) == FLt(b, a)
FGe(a, b) == FLe(b, a)

\* the float of an integer
F(n) == Num(n * FP)

\* Series.clip(lower=0) and Series.clip(upper=0) on one value
ClipLower0(a) == IF isna(a) THEN NaN ELSE IF FLt(a, F(0)) THEN F(0) ELSE a
ClipUpper0(a) == IF isna(a) THEN NaN ELSE IF FGt(a, F(0)) THEN F(0) ELSE a

\* a sequence given by a rule, with its elements computed once
Mat(s) == s \o << >>

\* DataFrame.max(axis=1) of one row: NaN is skipped, all-NaN gives NaN
RowMax(row) ==
    LET ok == {i \in 1..Len(row) : ~isna(row[i])}
    IN  IF ok = {} THEN NaN
        ELSE row[CHOOSE i \in ok : \A j \in ok : Key(row[j]) <= Key(row[i])]

RECURSIVE SumNum(_, _, _)
SumNum(s, lo, hi) == IF lo > hi THEN 0 ELSE s[hi].v + SumNum(s, lo, hi - 1)

\* Series.rolling(length).mean(): NaN until the window is full and wherever
\* the window holds a value that is not finite
rolling_mean(s, length) ==
    Mat([i \in 1..Len(s) |->
        IF i < length THEN NaN
        ELSE IF \E j \in (i - length + 1)..i : ~IsNum(s[j]) THEN NaN
        ELSE Num(SumNum(s, i - length + 1, i) \div length)])

\* Series.shift(1)
shift1(s) == Mat([i \in 1..Len(s) |-> IF i = 1 THEN NaN ELSE s[i - 1]])

\* Series.diff()
diff(s) == Mat([i \in 1..Len(s) |-> FSub(s[i], shift1(s)[i])])

\* ------------------------------------------------------------------------
\* Indicator library (src/main.py lines 96-163)
\* ------------------------------------------------------------------------
RECURSIVE EwmFrom(_, _, _, _)
EwmFrom(series, length, i, acc) ==
    IF i > Len(series) THEN acc
    ELSE EwmFrom(series, length, i + 1,
                 Append(acc, FDivInt(FAdd(FScale(length - 1, acc[i - 1]),
                                          FScale(2, series[i])),
                                     length + 1)))

\* series.ewm(span=length, adjust=False).mean(): y[1] = x[1] and
\* y[i] = (1 - a) * y[i-1] + a * x[i] with a = 2 / (length + 1)
ema(series, length) ==
    IF Len(series) = 0 THEN << >> ELSE EwmFrom(series, length, 2, <<series[1]>>)

rsi(series, length) ==
    LET delta == diff(series)
        gain == Mat([i \in 1..Len(series) |-> ClipLower0(delta[i])])
        loss == Mat([i \in 1..Len(series) |-> FNeg(ClipUpper0(delta[i]))])
        avg_gain == rolling_mean(gain, length)
        avg_loss == rolling_mean(loss, length)
    IN  Mat([i \in 1..Len(series) |->
            LET rs == FDiv(avg_gain[i], avg_loss[i])
            IN  FSub(F(100), FDiv(F(100), FAdd(F(1), rs)))])

\* the true range of every bar (lines 116-123 and 139-146)
true_range(df) ==
    LET prev_close == shift1(Mat([i \in 1..Len(df) |-> df[i].close]))
    IN  Mat([i \in 1..Len(df) |->
            RowMax(<<FSub(df[i].high, df[i].low),
                     FAbs(FSub(df[i].high, prev_close[i])),
                     FAbs(FSub(df[i].low, prev_close[i]))>>)])

atr(df, length) == rolling_mean(true_range(df), length)

\* Series.replace(to_replace, value) on one value of a float64 column.
\* pandas first drops from to_replace whatever a float64 column cannot hold
\* and replaces what matches the rest; a missing value matches NaN.  Of the
\* markers only the float NaN can be held: pd.NA and pd.NaT cannot.
HoldsAnyMarker(marker) == TRUE
float64_can_hold(marker) == marker = "nan"

replace(a, to_replace, value) ==
    IF isna(a) /\ \E marker \in to_replace : float64_can_hold(marker)
    THEN value ELSE a

\* .replace([pd.NA, pd.NaT], 0) of line 152
replace_na(a) == replace(a, {"pd.NA", "pd.NaT"}, F(0))

adx(df, length) ==
    LET n == Len(df)
        prev_high == shift1(Mat([i \in 1..n |-> df[i].high]))
        prev_low == shift1(Mat([i \in 1..n |-> df[i].low]))
        plus_raw == Mat([i \in 1..n |-> ClipLower0(FSub(df[i].high, prev_high[i]))])
        minus_raw == Mat([i \in 1..n |-> ClipLower0(FSub(prev_low[i], df[i].low))])
        plus_dm == Mat([i \in 1..n |->
                       IF FGt(plus_raw[i], minus_raw[i]) THEN plus_raw[i] ELSE F(0)])
        minus_dm == Mat([i \in 1..n |->
                       IF FGt(minus_raw[i], plus_dm[i]) THEN minus_raw[i] ELSE F(0)])
        atr_val == atr(df, length)
        plus_mean == rolling_mean(plus_dm, length)
        minus_mean == rolling_mean(minus_dm, length)
        dx == Mat([i \in 1..n |->
                 LET plus_di == FScale(100, FDiv(plus_mean[i], atr_val[i]))
                     minus_di == FScale(100, FDiv(minus_mean[i], atr_val[i]))
                 IN  FScale(100, replace_na(FDiv(FAbs(FSub(plus_di, minus_di)),
                                                 FAdd(plus_di, minus_di))))])
    IN  rolling_mean(dx, length)

\* macd returns (macd_line, signal, hist); build_signal reads hist only
macd(series) ==
    LET ema_fast == ema(series, MACD_FAST)
        ema_slow == ema(series, MACD_SLOW)
        macd_line == Mat([i \in 1..Len(series) |-> FSub(ema_fast[i], ema_slow[i])])
        signal == ema(macd_line, MACD_SIGNAL)
    IN  Mat([i \in 1..Len(series) |-> FSub(macd_line[i], signal[i])])

cross_above(curr_fast, curr_slow, prev_fast, prev_slow) ==
    FLe(prev_fast, prev_slow) /\ FGt(curr_fast, curr_slow)

cross_below(curr_fast, curr_slow, prev_fast, prev_slow) ==
    FGe(prev_fast, prev_slow) /\ FLt(curr_fast, curr_slow)

Max2(a, b) == IF a >= b THEN a ELSE b
Min2(a, b) == IF a <= b THEN a ELSE b

\* Series.dropna()
RECURSIVE dropna(_)
dropna(s) ==
    IF Len(s) = 0 THEN << >>
    ELSE IF isna(s[Len(s)]) THEN dropna(SubSeq(s, 1, Len(s) - 1))
    ELSE Append(dropna(SubSeq(s, 1, Len(s) - 1)), s[Len(s)])

\* Series.tail(k)
tail(s, k) == SubSeq(s, Max2(1, Len(s) - k + 1), Len(s))

\* the k-th smallest value (k from 1) of a sequence of finite floats
KthSmallest(s, k) ==
    LET v == CHOOSE i \in 1..Len(s) :
                 /\ Cardinality({j \in 1..Len(s) : Key(s[j]) < Key(s[i])}) < k
                 /\ k <= Cardinality({j \in 1..Len(s) : Key(s[j]) <= Key(s[i])})
    IN  s[v]

\* Series.quantile(1 / inv) with pandas' default linear interpolation
quantile(s, inv) ==
    LET m == Len(s)
        f == (m - 1) \div inv
        r == (m - 1) % inv
        lo == KthSmallest(s, f + 1)
        hi == IF f + 2 <= m THEN KthSmallest(s, f + 2) ELSE lo
    IN  FAdd(lo, FDivInt(FScale(r, FSub(hi, lo)), inv))

\* ------------------------------------------------------------------------
\* The quote provider's answers (the inputs of fetch_data)
\* ------------------------------------------------------------------------
\* A market is a base price and segments; a segment repeats a pattern of
\* close-to-close steps n times over, each bar opening at the previous
\* close with a wick above and below its body.
BuyMarket ==
    [base |-> 10000,
     segs |-> <<[n |-> 30, pat |-> <<-6, 2>>, wick |-> 2],
                [n |-> 25, pat |-> <<7, -4>>, wick |-> 2]>>]
SellMarket ==
    [base |-> 10000,
     segs |-> <<[n |-> 30, pat |-> <<6, -2>>, wick |-> 2],
                [n |-> 25, pat |-> <<-7, 4>>, wick |-> 2]>>]
\* the buy market one bar earlier and one bar later: no cross on the last bar
EarlyMarket ==
    [base |-> 10000,
     segs |-> <<[n |-> 30, pat |-> <<-6, 2>>, wick |-> 2],
                [n |-> 24, pat |-> <<7, -4>>, wick |-> 2]>>]
LateMarket ==
    [base |-> 10000,
     segs |-> <<[n |-> 30, pat |-> <<-6, 2>>, wick |-> 2],
                [n |-> 26, pat |-> <<7, -4>>, wick |-> 2]>>]
\* the buy market two bars short of build_signal's minimum
ShortMarket ==
    [base |-> 10000,
     segs |-> <<[n |-> 30, pat |-> <<-6, 2>>, wick |-> 2],
                [n |-> 23, pat |-> <<7, -4>>, wick |-> 2]>>]
\* the buy market cut to one bar less than the slowest window (EMA_SLOW)
ThinMarket ==
    [base |-> 10000,
     segs |-> <<[n |-> 30, pat |-> <<-6, 2>>, wick |-> 2],
                [n |-> 18, pat |-> <<7, -4>>, wick |-> 2]>>]
OneBarMarket ==
    [base |-> 10000, segs |-> << >>]
\* a price that never moves: high = low = close on every bar
FlatMarket ==
    [base |-> 10000, segs |-> <<[n |-> 59, pat |-> <<0>>, wick |-> 0]>>]
\* a standstill, a fall, and a standstill again up to the last bar
StallMarket ==
    [base |-> 10000,
     segs |-> <<[n |-> 30, pat |-> <<0>>, wick |-> 0],
                [n |-> 20, pat |-> <<-6, 2>>, wick |-> 2],
                [n |-> 14, pat |-> <<0>>, wick |-> 0]>>]

RECURSIVE Steps(_)
\* the close-to-close steps of the segments, each with its wick
Steps(segs) ==
    IF Len(segs) = 0 THEN << >>
    ELSE LET g == segs[1]
         IN  Mat([i \in 1..g.n |-> [d |-> g.pat[((i - 1) % Len(g.pat)) + 1],
                                w |-> g.wick]]) \o Steps(Tail(segs))

RECURSIVE ClosesFrom(_, _, _)
ClosesFrom(steps, i, acc) ==
    IF i > Len(steps) THEN acc
    ELSE ClosesFrom(steps, i + 1, Append(acc, acc[i] + steps[i].d))

Txt(n) == [num |-> TRUE, pts |-> n]
Junk == [num |-> FALSE, pts |-> 0]

\* the rows of a market as the provider sends them, oldest first
Rows(market) ==
    LET steps == Steps(market.segs)
        c == ClosesFrom(steps, 1, <<market.base>>)
        w0 == IF Len(steps) = 0 THEN 0 ELSE steps[1].w
    IN  Mat([i \in 1..Len(c) |->
            LET o == IF i = 1 THEN c[1] ELSE c[i - 1]
                w == IF i = 1 THEN w0 ELSE steps[i - 1].w
            IN  [datetime |-> i,
                 open |-> Txt(o),
                 high |-> Txt(Max2(o, c[i]) + w),
                 low |-> Txt(Min2(o, c[i]) - w),
                 close |-> Txt(c[i])]])

\* the same rows with a high and a low of the newest bar that is no number
GarbleLast(rows) ==
    [rows EXCEPT ![Len(rows)].high = Junk, ![Len(rows)].low = Junk]

\* the same rows with the high and the low of every bar at its open: the
\* true range of every bar is zero while the closes move
Pinned(rows) ==
    Mat([i \in 1..Len(rows) |->
            [rows[i] EXCEPT !.high = rows[i].open, !.low = rows[i].open]])

Reverse(s) == Mat([i \in 1..Len(s) |-> s[Len(s) + 1 - i]])

Values(rows) == [kind |-> "values", cols |-> TRUE, rows |-> rows]

\* Every answer the model lets the provider give.
Responses ==
    << [kind |-> "timeout", cols |-> FALSE, rows |-> << >>],
       [kind |-> "http_error", cols |-> FALSE, rows |-> << >>],
       [kind |-> "envelope", cols |-> FALSE, rows |-> << >>],
       [kind |-> "values", cols |-> FALSE, rows |-> << >>],
       [kind |-> "values", cols |-> FALSE, rows |-> Rows(OneBarMarket)],
       Values(Rows(OneBarMarket)),
       Values(Rows(ShortMarket)),
       Values(Rows(BuyMarket)),
       Values(Reverse(Rows(BuyMarket))),
       Values(Rows(SellMarket)),
       Values(Rows(EarlyMarket)),
       Values(Rows(LateMarket)),
       Values(Rows(FlatMarket)),
       Values(Rows(StallMarket)),
       Values(GarbleLast(Rows(BuyMarket))),
       Values(GarbleLast(Rows(SellMarket))),
       Values(Rows(ThinMarket)),
       Values(Pinned(Rows(BuyMarket))) >>

\* ------------------------------------------------------------------------
\* fetch_data (src/main.py lines 69-93)
\* ------------------------------------------------------------------------
\* pd.to_numeric(errors="coerce"): what is no number becomes NaN
to_numeric(x) == IF x.num THEN F(x.pts) ELSE NaN

\* DataFrame.sort_values("datetime").reset_index(drop=True)
sort_values(rows) ==
    Mat([i \in 1..Len(rows) |->
        rows[CHOOSE j \in 1..Len(rows) :
                 Cardinality({m \in 1..Len(rows) :
                                  rows[m].datetime < rows[j].datetime}) = i - 1]])

Raise(e) == [exc |-> e, df |-> << >>]

fetch_data(resp, apiKey) ==
    IF ~apiKey THEN Raise("RuntimeError")
    ELSE IF resp.kind = "timeout" THEN Raise("RequestException")
    ELSE IF resp.kind = "http_error" THEN Raise("HTTPError")
    ELSE IF resp.kind = "envelope" THEN Raise("ValueError")
    ELSE IF Len(resp.rows) = 0 \/ ~resp.cols THEN Raise("KeyError")
    ELSE [exc |-> "None",
          df |-> LET sorted == sort_values(resp.rows)
                 IN  Mat([i \in 1..Len(sorted) |->
                         [datetime |-> sorted[i].datetime,
                          open |-> to_numeric(sorted[i].open),
                          high |-> to_numeric(sorted[i].high),
                          low |-> to_numeric(sorted[i].low),
                          close |-> to_numeric(sorted[i].close)]])]

\* ------------------------------------------------------------------------
\* build_signal (src/main.py lines 214-321)
\* ------------------------------------------------------------------------
Max5(a, b, c, d, e) == Max2(a, Max2(b, Max2(c, Max2(d, e))))

\* len(df) < max(EMA_SLOW, MACD_SLOW, RSI_LEN, ATR_LEN, ADX_LEN) + 5
LargestWindow == Max5(EMA_SLOW, MACD_SLOW, RSI_LEN, ATR_LEN, ADX_LEN)

TooShort(df) == Len(df) < LargestWindow + WARMUP_MARGIN

\* Lines 220-237: the indicator values build_signal reads off the last two
\* rows of a frame that is long enough.
last_rows(n, close, ema_fast, ema_slow, macd_hist, rsi_val, atr_val, adx_val) ==
    [ema_f_now |-> ema_fast[n], ema_f_prev |-> ema_fast[n - 1],
     ema_s_now |-> ema_slow[n], ema_s_prev |-> ema_slow[n - 1],
     macd_hist_now |-> macd_hist[n], macd_hist_prev |-> macd_hist[n - 1],
     rsi_now |-> rsi_val[n],
     atr_now |-> atr_val[n],
     adx_now |-> adx_val[n],
     price |-> close[n],
     recent_atr |-> tail(dropna(atr_val), ATR_TAIL)]

columns(df, close) ==
    last_rows(Len(df), close, ema(close, EMA_FAST), ema(close, EMA_SLOW),
              macd(close), rsi(close, RSI_LEN), atr(df, ATR_LEN),
              adx(df, ADX_LEN))

indicators(df) == columns(df, Mat([i \in 1..Len(df) |-> df[i].close]))

\* Lines 239-244: the ATR percentile filter returns None
atr_too_low(ind) ==
    /\ Len(ind.recent_atr) >= ATR_MIN_COUNT
    /\ FLt(ind.atr_now, quantile(ind.recent_atr, ATR_QUANTILE_INV))

\* Lines 254-256: the ADX strength filter returns None
adx_too_weak(ind) == isna(ind.adx_now) \/ FLt(ind.adx_now, F(ADX_MIN))

\* Lines 258-262: the price is too far from the fast EMA
too_extended(ind) ==
    FGt(FAbs(FSub(ind.price, ind.ema_f_now)),
        FDivInt(FScale(MAX_EXT_PERMILLE, ind.price), 1000))

\* Lines 246-252 and 264-279: "BUY", "SELL" or "None"
entry(ind) ==
    LET trend_up == FGt(ind.ema_f_now, ind.ema_s_now)
        trend_down == FLt(ind.ema_f_now, ind.ema_s_now)
        macd_bull == /\ FGt(ind.macd_hist_now, F(0))
                     /\ FGt(ind.macd_hist_now, ind.macd_hist_prev)
        macd_bear == /\ FLt(ind.macd_hist_now, F(0))
                     /\ FLt(ind.macd_hist_now, ind.macd_hist_prev)
        buy == /\ trend_up
               /\ macd_bull
               /\ FLe(F(RSI_BUY_MIN), ind.rsi_now)
               /\ FLe(ind.rsi_now, F(RSI_BUY_MAX))
               /\ cross_above(ind.ema_f_now, ind.ema_s_now,
                              ind.ema_f_prev, ind.ema_s_prev)
        sell == /\ trend_down
                /\ macd_bear
                /\ FLe(F(RSI_SELL_MIN), ind.rsi_now)
                /\ FLe(ind.rsi_now, F(RSI_SELL_MAX))
                /\ cross_below(ind.ema_f_now, ind.ema_s_now,
                               ind.ema_f_prev, ind.ema_s_prev)
    IN  IF buy THEN "BUY" ELSE IF sell THEN "SELL" ELSE "None"

NoLevels == [price |-> NaN, sl |-> NaN, tp1 |-> NaN, tp2 |-> NaN, tp3 |-> NaN]

\* Lines 214-281 on one provider answer: the exception raised ("None" when
\* there is none), the direction computed ("None" for every return None),
\* and the price and the ATR of the decision bar.
\* Lines 239-279 on the indicator values of the decision bar; wanted is
\* what the entry conditions of lines 264-279 say of that bar, filtered or not
filtered(ind) ==
    [exc |-> "None",
     direction |-> IF \/ atr_too_low(ind)
                      \/ adx_too_weak(ind)
                      \/ too_extended(ind)
                   THEN "None" ELSE entry(ind),
     price |-> ind.price,
     atr_now |-> ind.atr_now,
     wanted |-> entry(ind)]

\* Lines 215-279 on what fetch_data gave
decide(got) ==
    IF got.exc # "None"
    THEN [exc |-> got.exc, direction |-> "None", price |-> NaN, atr_now |-> NaN,
          wanted |-> "None"]
    ELSE IF TooShort(got.df)
    THEN [exc |-> "None", direction |-> "None", price |-> NaN, atr_now |-> NaN,
          wanted |-> "None"]
    ELSE filtered(indicators(got.df))

signal_direction(resp, apiKey) == decide(fetch_data(resp, apiKey))

\* levels that are not mirrored for SELL
LevelsOfBuy(direction, price, atr_now) ==
    [price |-> price,
     sl |-> FSub(price, FDivInt(FScale(ATR_SL_MULT, atr_now), 10)),
     tp1 |-> FAdd(price, FDivInt(FScale(ATR_SL_MULT, atr_now), 10)),
     tp2 |-> FAdd(price, FScale(2, FDivInt(FScale(ATR_SL_MULT, atr_now), 10))),
     tp3 |-> FAdd(price, FScale(3, FDivInt(FScale(ATR_SL_MULT, atr_now), 10)))]
\* Lines 288-302: the stop and the three targets
levels(direction, price, atr_now) ==
    LET risk == FDivInt(FScale(ATR_SL_MULT, atr_now), 10)
        r1 == FDivInt(FScale(TP1_MULT, risk), 10)
        r2 == FDivInt(FScale(TP2_MULT, risk), 10)
        r3 == FDivInt(FScale(TP3_MULT, risk), 10)
    IN  IF direction = "BUY"
        THEN [price |-> price, sl |-> FSub(price, risk), tp1 |-> FAdd(price, r1),
              tp2 |-> FAdd(price, r2), tp3 |-> FAdd(price, r3)]
        ELSE [price |-> price, sl |-> FAdd(price, risk), tp1 |-> FSub(price, r1),
              tp2 |-> FSub(price, r2), tp3 |-> FSub(price, r3)]

\* signal_direction of every answer, computed once
Decision == Mat([r \in 1..Len(Responses) |-> signal_direction(Responses[r], TRUE)])

NRows == Mat([r \in 1..Len(Responses) |-> Len(Responses[r].rows)])

Decided(r, apiKey) ==
    IF apiKey THEN Decision[r]
    ELSE [exc |-> "RuntimeError", direction |-> "None", price |-> NaN, atr_now |-> NaN,
          wanted |-> "None"]

\* Lines 283-286: the stored direction equals the computed one
IsRepeatNever(prev_dir, direction) == FALSE
IsRepeat(prev_dir, direction) == prev_dir = direction

\* Lines 280-281: what last_signal_dir holds for the pair after "if not
\* direction: return None" (the entry is not touched)
StoredClearedOnHold(prev_dir) == "None"
StoredOnHold(prev_dir) == prev_dir

\* Line 304: what last_signal_dir holds for the pair once an alert is built
StoredKeptOnAlert(prev_dir, direction) == prev_dir
StoredOnAlert(prev_dir, direction) == direction

\* build_signal on answer r for a pair whose stored direction is prev_dir:
\* the exception it raises, whether it returns an alert text, the direction
\* it computed, the levels of the alert and the pair's stored direction
\* when it returns or raises.
gated(prev_dir, d) ==
    IF d.exc # "None"
    THEN [exc |-> d.exc, alert |-> FALSE, direction |-> "None",
          stored |-> prev_dir, lv |-> NoLevels, atr_now |-> NaN, wanted |-> "None"]
    ELSE IF d.direction = "None"
    THEN [exc |-> "None", alert |-> FALSE, direction |-> "None",
          stored |-> StoredOnHold(prev_dir), lv |-> NoLevels,
          atr_now |-> d.atr_now, wanted |-> d.wanted]
    ELSE IF IsRepeat(prev_dir, d.direction)
    THEN [exc |-> "None", alert |-> FALSE, direction |-> d.direction,
          stored |-> prev_dir, lv |-> NoLevels, atr_now |-> d.atr_now,
          wanted |-> d.wanted]
    ELSE [exc |-> "None", alert |-> TRUE, direction |-> d.direction,
          stored |-> StoredOnAlert(prev_dir, d.direction),
          lv |-> levels(d.direction, d.price, d.atr_now),
          atr_now |-> d.atr_now, wanted |-> d.wanted]

build_signal(prev_dir, r, apiKey) == gated(prev_dir, Decided(r, apiKey))

\* ------------------------------------------------------------------------
\* send_telegram (src/main.py lines 187-203)
\* ------------------------------------------------------------------------
NetOutcomes == {"ok", "non200", "exception"}

\* what became of the message: nothing is raised to the caller
send_telegram(creds, net) == IF ~creds THEN "missing" ELSE net

\* ------------------------------------------------------------------------
\* State
\* ------------------------------------------------------------------------
VARIABLES
    npairs,          \* how many pairs PAIRS configures (pair i is 1..npairs)
    TD_API_KEY,      \* whether TWELVEDATA_API_KEY is set
    BOT_CREDS,       \* whether BOT_TOKEN and CHAT_ID are both set
    last_signal_dir, \* pair -> "BUY", "SELL" or "None" (no entry)
    pair_index,      \* the rotation index
    mainpc,          \* main's position in MainOrder (0: ended by an exception)
    sched_started,   \* sched.start() has run
    ex,              \* every thread's run_scan call
    missed,          \* the scheduler skipped its last run: an instance was running
    lastScan,        \* history: the run_scan call that returned last
    scanlog,         \* history: the batches of the latest in-session scans
    ev,              \* history: the latest evaluation of a pair
    keep,            \* history: which of the history variables are kept
    watch,           \* history: the pair whose alerts mon follows
    mon,             \* history: the alerts and evaluations of pair watch
    rsi_in,          \* the close series handed to rsi
    rsi_out          \* what rsi returned for it

vars == <<npairs, TD_API_KEY, BOT_CREDS, last_signal_dir,
          pair_index, mainpc, sched_started, ex, missed, lastScan, scanlog,
          ev, keep, watch, mon, rsi_in, rsi_out>>

config == <<npairs, TD_API_KEY, BOT_CREDS, keep, watch>>

Dirs == {"BUY", "SELL"}
Main == 0
Workers == 1..MaxWorkers
Executors == {Main} \cup Workers

\* main's statements in order (lines 377-386)
MainOrderSchedFirst == <<"sched_start", "run_scan", "app_run">>
MainOrder == <<"run_scan", "sched_start", "app_run">>

MainAt(what) == mainpc \in 1..Len(MainOrder) /\ MainOrder[mainpc] = what

\* "except Exception" (line 356) catches every exception build_signal raises
CaughtValueErrorOnly(exc) == exc = "ValueError"
Caught(exc) ==
    exc \in {"RuntimeError", "RequestException", "HTTPError", "ValueError", "KeyError"}

\* the list pairs of line 331
pairs(n) == [i \in 1..n |-> i]

\* Python's s[start:end] for 0 <= start
Slice(s, start, end) == SubSeq(s, start + 1, Min2(end, Len(s)))

\* Lines 336-343: the batch of this run
Batch(idx, n) ==
    IF PAIRS_PER_RUN >= n THEN pairs(n)
    ELSE Slice(pairs(n) \o pairs(n), idx, idx + PAIRS_PER_RUN)

\* Line 344: the rotation index after this run
NextIndexNoWrap(idx, n) == IF PAIRS_PER_RUN >= n THEN idx ELSE idx + PAIRS_PER_RUN
NextIndex(idx, n) == IF PAIRS_PER_RUN >= n THEN idx ELSE (idx + PAIRS_PER_RUN) % n

Idle == [pc |-> "idle", start |-> 0, batch |-> << >>, pos |-> 0, errs |-> {}]

NoEvent ==
    [kind |-> "init", pair |-> 0, resp |-> 0, exc |-> "None", direction |-> "None",
     prev_dir |-> "None", sent |-> "-", before |-> << >>, lv |-> NoLevels,
     atr_now |-> NaN, wanted |-> "None", watched |-> FALSE,
     m |-> [lastAlert |-> "None", prevAlert |-> "None", holdSince |-> FALSE,
            priorDir |-> "-", priorAlert |-> FALSE, priorPrev |-> "None"]]

NoScan ==
    [who |-> Main, in_session |-> FALSE, start |-> 0, after |-> 0, n |-> 0,
     batch |-> << >>, evaluated |-> 0, errs |-> {}, raised |-> FALSE, done |-> FALSE]

InitWith(ns, keys, kept, series) ==
    /\ npairs \in ns
    /\ TD_API_KEY \in keys
    /\ keep = kept
    /\ BOT_CREDS \in BOOLEAN
    /\ watch \in (IF npairs = 0 \/ "mon" \notin kept THEN {0} ELSE 1..npairs)
    /\ last_signal_dir = [p \in 1..npairs |-> "None"]
    /\ pair_index = 0
    /\ mainpc = 1
    /\ sched_started = FALSE
    /\ ex = [e \in Executors |-> Idle]
    /\ missed = FALSE
    /\ lastScan = NoScan
    /\ scanlog = << >>
    /\ ev = NoEvent
    /\ mon = NoEvent.m
    /\ rsi_in \in series
    /\ rsi_out = << >>

\* The gate specification: up to MaxGatePairs pairs with the API key set;
\* the history kept is the latest evaluation and the monitor of one pair.
Init == InitWith(0..MaxGatePairs, {TRUE}, {"ev", "mon"}, {<< >>})

\* how many in-session scans cover every pair: ceil(n / PAIRS_PER_RUN)
Rounds(n) == (n + PAIRS_PER_RUN - 1) \div PAIRS_PER_RUN

Returned(e, rec) ==
    /\ lastScan' = IF "scan" \in keep THEN rec ELSE lastScan
    /\ mainpc' = IF e # Main THEN mainpc
                 ELSE IF rec.raised THEN 0 ELSE mainpc + 1

\* run_scan up to its loop (lines 324-346) in thread e; in_session is what
\* within_trading_session() answers
RunScanBegin(e, in_session) ==
    /\ ex[e].pc = "idle"
    /\ IF ~in_session \/ npairs = 0
       THEN /\ Returned(e, [who |-> e, in_session |-> in_session, start |-> pair_index,
                            after |-> pair_index, n |-> npairs, batch |-> << >>,
                            evaluated |-> 0, errs |-> {}, raised |-> FALSE, done |-> TRUE])
            /\ UNCHANGED <<pair_index, ex>>
       ELSE /\ pair_index' = NextIndex(pair_index, npairs)
            /\ ex' = [ex EXCEPT ![e] = [pc |-> "loop", start |-> pair_index,
                                        batch |-> Batch(pair_index, npairs),
                                        pos |-> 0, errs |-> {}]]
            /\ UNCHANGED <<lastScan, mainpc>>
    /\ UNCHANGED <<config, last_signal_dir, sched_started, scanlog, ev, mon,
                   rsi_in, rsi_out>>

\* main calls run_scan (line 378)
MainRunScan ==
    /\ MainAt("run_scan")
    /\ \E in_session \in BOOLEAN : RunScanBegin(Main, in_session)
    /\ UNCHANGED missed

\* sched.add_job and sched.start() (lines 381-383)
SchedStart ==
    /\ MainAt("sched_start")
    /\ sched_started' = TRUE
    /\ mainpc' = mainpc + 1
    /\ UNCHANGED <<config, last_signal_dir, pair_index, ex, missed, lastScan,
                   scanlog, ev, mon, rsi_in, rsi_out>>

\* app.run (line 386): main serves the keep-alive endpoint from here on
AppRun ==
    /\ MainAt("app_run")
    /\ mainpc' = mainpc + 1
    /\ UNCHANGED <<config, last_signal_dir, pair_index, sched_started, ex, missed,
                   lastScan, scanlog, ev, mon, rsi_in, rsi_out>>

Running == {w \in Workers : ex[w].pc = "loop"}

\* The interval trigger fires: the job runs in a pool thread unless
\* max_instances of it are running, and then this run is skipped.
IntervalFire ==
    /\ sched_started
    /\ mainpc # 0
    /\ IF Cardinality(Running) >= MaxInstances
       THEN /\ missed' = ("scan" \in keep)
            /\ UNCHANGED <<config, last_signal_dir, pair_index, mainpc, sched_started,
                           ex, lastScan, scanlog, ev, mon, rsi_in, rsi_out>>
       ELSE /\ missed' = FALSE
            /\ \E w \in Workers, in_session \in BOOLEAN :
                  /\ \A v \in Workers : ex[v].pc = "idle" => w <= v
                  /\ RunScanBegin(w, in_session)

\* the monitor of pair watch after an evaluation of it
Monitored(m, prev_dir, res) ==
    [lastAlert |-> IF res.alert THEN res.direction ELSE m.lastAlert,
     prevAlert |-> IF res.alert THEN m.lastAlert ELSE m.prevAlert,
     holdSince |-> IF res.alert THEN FALSE
                   ELSE IF res.exc = "None" /\ res.direction = "None"
                   THEN m.lastAlert # "None"
                   ELSE m.holdSince,
     priorDir |-> IF res.exc # "None" THEN "exc" ELSE res.direction,
     priorAlert |-> res.alert,
     priorPrev |-> prev_dir]

ScanRecord(e, raised) ==
    [who |-> e, in_session |-> TRUE, start |-> ex[e].start,
     after |-> pair_index, n |-> npairs, batch |-> ex[e].batch,
     evaluated |-> IF raised THEN ex[e].pos + 1 ELSE ex[e].pos,
     errs |-> IF raised THEN ex[e].errs \cup {ex[e].pos + 1} ELSE ex[e].errs,
     raised |-> raised, done |-> TRUE]

\* the record of an evaluation of pair p whose build_signal call came to res
Evaluation(p, r, res, sent) ==
    [kind |-> IF res.exc # "None" THEN "exc"
              ELSE IF res.alert THEN "alert"
              ELSE IF res.direction = "None" THEN "hold"
              ELSE "dup",
     pair |-> p,
     direction |-> res.direction, prev_dir |-> last_signal_dir[p],
     sent |-> IF res.alert THEN sent ELSE "-",
     before |-> last_signal_dir,
     watched |-> p = watch, m |-> mon,
     resp |-> IF "detail" \in keep THEN r ELSE 0,
     exc |-> IF "detail" \in keep THEN res.exc ELSE "None",
     lv |-> IF "detail" \in keep THEN res.lv ELSE NoLevels,
     atr_now |-> IF "detail" \in keep THEN res.atr_now ELSE NaN,
     wanted |-> IF "detail" \in keep THEN res.wanted ELSE "None"]

\* Lines 350-357 for pair p in thread e, build_signal having come to res
\* and send_telegram, where it was called, to sent
Evaluated(e, p, r, res, sent) ==
    /\ last_signal_dir' = [last_signal_dir EXCEPT ![p] = res.stored]
    /\ ev' = IF "ev" \in keep THEN Evaluation(p, r, res, sent) ELSE ev
    /\ mon' = IF p = watch /\ "mon" \in keep
              THEN Monitored(mon, last_signal_dir[p], res) ELSE mon
    /\ IF res.exc # "None" /\ ~Caught(res.exc)
       THEN /\ ex' = [ex EXCEPT ![e] = Idle]
            /\ Returned(e, ScanRecord(e, TRUE))
       ELSE /\ ex' = [ex EXCEPT ![e].pos = @ + 1,
                                ![e].errs = IF res.exc # "None"
                                            THEN @ \cup {ex[e].pos + 1} ELSE @]
            /\ UNCHANGED <<lastScan, mainpc>>

\* One turn of run_scan's loop (lines 348-357) in thread e: build_signal
\* on the provider's answer r, then send_telegram when it returned a text;
\* net is what the Telegram request comes to.
RunScanPair(e, r, net) ==
    /\ ex[e].pc = "loop"
    /\ ex[e].pos < Len(ex[e].batch)
    /\ mainpc # 0
    /\ Evaluated(e, ex[e].batch[ex[e].pos + 1], r,
                 build_signal(last_signal_dir[ex[e].batch[ex[e].pos + 1]], r,
                              TD_API_KEY),
                 send_telegram(BOT_CREDS, net))
    /\ UNCHANGED <<config, pair_index, sched_started, missed, scanlog, rsi_in, rsi_out>>

\* run_scan returns after the last pair of its batch
RunScanEnd(e) ==
    /\ ex[e].pc = "loop"
    /\ ex[e].pos = Len(ex[e].batch)
    /\ mainpc # 0
    /\ ex' = [ex EXCEPT ![e] = Idle]
    /\ Returned(e, ScanRecord(e, FALSE))
    /\ scanlog' = IF "log" \in keep
                  THEN tail(Append(scanlog, ex[e].batch), Rounds(npairs))
                  ELSE scanlog
    /\ UNCHANGED <<config, last_signal_dir, pair_index, sched_started, missed, ev,
                   mon, rsi_in, rsi_out>>

Next ==
    \/ MainRunScan
    \/ SchedStart
    \/ AppRun
    \/ IntervalFire
    \/ \E e \in Executors, r \in 1..Len(Responses), net \in NetOutcomes :
          RunScanPair(e, r, net)
    \/ \E e \in Executors : RunScanEnd(e)

Spec == Init /\ [][Next]_vars

\* The signal specification: one pair, and the latest evaluation is kept
\* with the provider's answer, the ATR of the decision bar and the levels.
InitSignal == InitWith({1}, {TRUE}, {"ev", "detail"}, {<< >>})
SpecSignal == InitSignal /\ [][Next]_vars

\* The scan specification: the history kept is the run_scan call that
\* returned last and the scheduler's skipped runs.
InitScan == InitWith(0..MaxScanPairs, BOOLEAN, {"scan"}, {<< >>})
SpecScan == InitScan /\ [][Next]_vars

\* The rotation specification: up to MaxPairs pairs with the API key
\* missing, so that fetch_data raises for every pair of every batch; the
\* history kept is the last call and the batches of the latest calls.
InitRot == InitWith(0..MaxPairs, {FALSE}, {"scan", "log"}, {<< >>})
SpecRot == InitRot /\ [][Next]_vars

\* ------------------------------------------------------------------------
\* rsi on its own (src/main.py lines 100-110)
\* ------------------------------------------------------------------------
\* n closes from base, the steps between them repeating pat
RsiCloses(base, pat, n) ==
    ClosesFrom(Mat([i \in 1..(n - 1) |-> [d |-> pat[((i - 1) % Len(pat)) + 1], w |-> 0]]),
               1, <<base>>)

\* the close series rsi is given: flat, rising, falling and mixed ones, just
\* longer than the window
RsiInputs ==
    { Mat([i \in 1..n |-> F(RsiCloses(base, pat, n)[i])]) :
        base \in {100, 10000},
        pat \in [1..PatLen -> {-1, 0, 1}],
        n \in (RSI_LEN + 1)..MaxRsiLen }

InitRsi == InitWith({0}, {TRUE}, {}, RsiInputs)

\* rsi(df["close"], RSI_LEN) as build_signal calls it (line 228)
CallRsi ==
    /\ rsi_out = << >>
    /\ rsi_out' = rsi(rsi_in, RSI_LEN)
    /\ UNCHANGED <<config, last_signal_dir, pair_index, mainpc, sched_started, ex,
                   missed, lastScan, scanlog, ev, mon, rsi_in>>

NextRsi == CallRsi

SpecRsi == InitRsi /\ [][NextRsi]_vars

\* ------------------------------------------------------------------------
\* The duplicate-suppression gate (claims C1, C2, C3; specification Spec)
\* ------------------------------------------------------------------------
\* the latest evaluation computed a direction
Resolved == ev.kind # "init" /\ ev.direction \in Dirs

\* last_signal_dir with the latest evaluation's direction stored for its pair
StoredNew == [ev.before EXCEPT ![ev.pair] = ev.direction]

\* the notifier did not deliver the alert of the latest evaluation
NotDelivered == ev.kind = "alert" /\ ev.sent \in {"missing", "non200", "exception"}

\* C1: when build_signal computes a direction equal to the one stored for the
\* pair it returns no alert and leaves last_signal_dir as it was; when the
\* direction differs from the stored one (or none is stored) it stores the
\* new direction and returns an alert.  So of two consecutive evaluations of
\* one pair that both resolve to the same direction the second is always
\* suppressed, and the first returned an alert unless that direction was
\* stored already: one notification for the two.
C1_Gate ==
    Resolved =>
        /\ ev.direction = ev.prev_dir =>
               ev.kind = "dup" /\ last_signal_dir = ev.before
        /\ ev.direction # ev.prev_dir =>
               ev.kind = "alert" /\ last_signal_dir = StoredNew
        /\ ev.watched /\ ev.m.priorDir = ev.direction =>
               /\ ev.kind = "dup"
               /\ ev.m.priorPrev # ev.direction => ev.m.priorAlert

\* two consecutive evaluations of the watched pair resolved to BUY: the first
\* returned the alert, the second was suppressed
C1_Reached ==
    /\ ev.watched /\ ev.kind = "dup" /\ ev.direction = "BUY"
    /\ ev.m.priorDir = "BUY" /\ ev.m.priorAlert

\* C2 as the specification states it: after an alert in some direction, once
\* a later evaluation of the pair resolved to HOLD, an evaluation that
\* resolves to that direction again returns an alert.
C2_Claimed ==
    Resolved /\ ev.watched /\ ev.m.lastAlert = ev.direction /\ ev.m.holdSince =>
        ev.kind = "alert"

\* C2 (amended): after a BUY alert for a pair, an evaluation that resolves
\* to SELL returns an alert, and after it the next evaluation that resolves
\* to BUY returns a BUY alert again (and symmetrically); an evaluation that
\* resolves to HOLD leaves the stored direction alone, so a BUY after a BUY
\* alert and any number of HOLDs is still suppressed.
C2_Rearm ==
    Resolved /\ ev.watched /\ ev.m.lastAlert # "None" =>
        /\ ev.m.lastAlert # ev.direction => ev.kind = "alert"
        /\ ev.m.lastAlert = ev.direction => ev.kind = "dup"
        /\ ev.m.lastAlert = ev.prev_dir

\* BUY alert, SELL alert, and the BUY that follows is an alert again
C2_Reached ==
    /\ ev.watched /\ ev.kind = "alert" /\ ev.direction = "BUY"
    /\ ev.m.lastAlert = "SELL" /\ ev.m.prevAlert = "BUY"

\* C3 as the specification states it: last_signal_dir is unchanged after an
\* evaluation that yields no signal, raises, or whose alert the notifier
\* does not deliver.
C3_Claimed ==
    ev.kind \in {"hold", "dup", "exc"} \/ NotDelivered => last_signal_dir = ev.before

\* C3 (amended): last_signal_dir changes exactly when build_signal returns
\* an alert, whether or not the notifier delivers it: after an evaluation
\* that yields no signal or raises it is unchanged for every pair, and after
\* one that returns an alert only the entry of that pair changed, to the new
\* direction, whatever became of the message.
C3_Frame ==
    /\ ev.kind = "init" => last_signal_dir = [p \in 1..npairs |-> "None"]
    /\ ev.kind \in {"hold", "dup", "exc"} => last_signal_dir = ev.before
    /\ ev.kind = "alert" =>
           /\ last_signal_dir = StoredNew
           /\ last_signal_dir # ev.before
           /\ ev.sent \in {"ok", "missing", "non200", "exception"}

\* an alert the notifier failed to deliver, and the direction is stored
C3_Reached == NotDelivered /\ last_signal_dir[ev.pair] = ev.direction

\* ------------------------------------------------------------------------
\* run_scan's error handling and scheduling (claims C4, C9; SpecScan)
\* ------------------------------------------------------------------------
\* the threads that are inside run_scan's loop
Scanning == {e \in Executors : ex[e].pc = "loop"}

\* C4: a failure while one pair of the batch is processed (the API key is
\* missing, the request fails, the provider answers with an error envelope,
\* the data is malformed) is caught for that pair only: the loop goes on
\* behind every failed pair, a run_scan call that has returned evaluated
\* every pair of its batch and did not raise, and main is never ended by an
\* exception, so the next cycle runs.
C4_Caught ==
    /\ mainpc # 0
    /\ \A e \in Scanning : ex[e].errs \subseteq 1..ex[e].pos
    /\ lastScan.done =>
           /\ ~lastScan.raised
           /\ lastScan.evaluated = Len(lastScan.batch)
           /\ lastScan.errs \subseteq 1..Len(lastScan.batch)

\* a call returned normally although a pair failed, and the pair behind the
\* failed one was evaluated without a failure
C4_Reached ==
    /\ lastScan.done /\ ~lastScan.raised
    /\ lastScan.evaluated = Len(lastScan.batch)
    /\ \E i \in lastScan.errs : i < Len(lastScan.batch) /\ (i + 1) \notin lastScan.errs

\* C9: no two executions of run_scan overlap: the scheduler is started only
\* after the startup scan has returned, and a scheduled scan never starts
\* while another is running, so at most one thread is inside run_scan.
C9_NoOverlap ==
    /\ Cardinality(Scanning) <= 1
    /\ sched_started => ex[Main].pc = "idle" /\ ~MainAt("run_scan")
    /\ Scanning # {} /\ Scanning # {Main} => sched_started

\* the interval fired while a scheduled scan was running and was skipped
C9_Reached == missed /\ Scanning \cap Workers # {} /\ ex[Main].pc = "idle"

\* ------------------------------------------------------------------------
\* The rotation over the configured pairs (claim C10; SpecRot)
\* ------------------------------------------------------------------------
\* the pairs a batch holds
Range(batch) == {batch[j] : j \in 1..Len(batch)}

\* C10: with n > k = PAIRS_PER_RUN pairs every in-session run_scan evaluates
\* exactly the k cyclically consecutive pairs from pair_index and advances
\* pair_index by k modulo n; pair_index stays in [0, n); an out-of-session
\* scan leaves it unchanged; every pair is evaluated in any ceil(n/k)
\* consecutive in-session scans.  With n <= k every in-session scan
\* evaluates all n pairs, and no scan evaluates more than k pairs.
C10_Rotation ==
    /\ npairs > 0 => pair_index \in 0..(npairs - 1)
    /\ \A e \in Scanning : Len(ex[e].batch) <= PAIRS_PER_RUN
    /\ lastScan.done /\ ~lastScan.in_session =>
           lastScan.after = lastScan.start /\ lastScan.evaluated = 0
    /\ lastScan.done /\ lastScan.in_session /\ lastScan.n > PAIRS_PER_RUN =>
           /\ lastScan.evaluated = PAIRS_PER_RUN
           /\ Len(lastScan.batch) = PAIRS_PER_RUN
           /\ \A j \in 1..PAIRS_PER_RUN :
                  lastScan.batch[j] = ((lastScan.start + j - 1) % lastScan.n) + 1
           /\ lastScan.after = (lastScan.start + PAIRS_PER_RUN) % lastScan.n
    /\ lastScan.done /\ lastScan.in_session /\ lastScan.n <= PAIRS_PER_RUN =>
           /\ lastScan.evaluated = lastScan.n
           /\ lastScan.batch = pairs(lastScan.n)
           /\ lastScan.after = lastScan.start
    /\ npairs > 0 /\ Len(scanlog) = Rounds(npairs) =>
           \A p \in 1..npairs : \E i \in 1..Len(scanlog) : p \in Range(scanlog[i])

\* a batch that wraps around the end of the list, after enough scans to
\* cover every pair
C10_Reached ==
    /\ lastScan.done /\ lastScan.in_session /\ lastScan.n > PAIRS_PER_RUN
    /\ lastScan.start + PAIRS_PER_RUN > lastScan.n
    /\ lastScan.after # 0
    /\ Len(scanlog) = Rounds(npairs) /\ Rounds(npairs) > 2

\* ------------------------------------------------------------------------
\* The signal rule on the provider's data (claims C5, C6, C7; SpecSignal)
\* ------------------------------------------------------------------------
\* the ATR of the decision bar is zero or undefined
AtrUnusable == isna(ev.atr_now) \/ ev.atr_now = F(0)

\* build_signal got as far as the indicators in the latest evaluation
Computed == ev.kind \in {"hold", "dup", "alert"} /\ ~TooShort(Responses[ev.resp].rows)

\* C5: when the ATR of the decision bar is 0 or undefined build_signal
\* returns no signal, whatever the EMA, MACD and RSI conditions say, and
\* the stop of every alert is at a distance above zero from the price.
C5_AtrGuard ==
    /\ Computed /\ AtrUnusable => ev.kind = "hold"
    /\ ev.kind = "alert" =>
           /\ IsNum(ev.atr_now) /\ FGt(ev.atr_now, F(0))
           /\ FGt(FAbs(FSub(ev.lv.price, ev.lv.sl)), F(0))

\* the entry conditions say BUY on a decision bar whose ATR is 0 and the
\* evaluation came to no signal
C5_Reached ==
    Computed /\ ev.atr_now = F(0) /\ ev.wanted = "BUY" /\ ev.kind = "hold"

\* C6: sl < price < tp1 < tp2 < tp3 for every BUY alert and
\* tp3 < tp2 < tp1 < price < sl for every SELL alert.
C6_Ordered ==
    ev.kind = "alert" =>
        IF ev.direction = "BUY"
        THEN /\ FLt(ev.lv.sl, ev.lv.price) /\ FLt(ev.lv.price, ev.lv.tp1)
             /\ FLt(ev.lv.tp1, ev.lv.tp2) /\ FLt(ev.lv.tp2, ev.lv.tp3)
        ELSE /\ FLt(ev.lv.tp3, ev.lv.tp2) /\ FLt(ev.lv.tp2, ev.lv.tp1)
             /\ FLt(ev.lv.tp1, ev.lv.price) /\ FLt(ev.lv.price, ev.lv.sl)

\* a SELL alert with its stop above the price and its targets below
C6_Reached ==
    /\ ev.kind = "alert" /\ ev.direction = "SELL"
    /\ FLt(ev.lv.price, ev.lv.sl) /\ FLt(ev.lv.tp3, ev.lv.price)

\* the provider answered with candles (none at all, or rows with all columns)
IsCandles(r) ==
    /\ r \in 1..Len(Responses)
    /\ Responses[r].kind = "values"
    /\ Responses[r].cols \/ Len(Responses[r].rows) = 0

\* C7 as the specification states it: on a candle sequence shorter than the
\* largest indicator window, the empty one included, the evaluation resolves
\* to no signal and raises nothing.
C7_Claimed ==
    ev.kind # "init" /\ IsCandles(ev.resp) /\ NRows[ev.resp] < LargestWindow =>
        ev.kind = "hold" /\ ev.exc = "None"

\* the evaluation of an empty candle sequence raised KeyError
C7_Reached ==
    /\ ev.kind = "exc" /\ ev.exc = "KeyError"
    /\ IsCandles(ev.resp) /\ NRows[ev.resp] = 0

\* ------------------------------------------------------------------------
\* rsi on flat and one-sided series (claim C8; SpecRsi)
\* ------------------------------------------------------------------------
\* every close of the series is the same
IsConstant(series) == \A i \in 1..Len(series) : series[i] = series[1]

\* no close of the window that ends at index i is below the one before it
NoLossAt(series, i) ==
    \A j \in (i - RSI_LEN + 1)..i : j > 1 /\ FGe(series[j], series[j - 1])

\* C8 as the specification states it: on a constant close series rsi is 50
\* at every index past the warm-up window, and wherever the average loss of
\* the window is 0 it is a defined value in [0, 100].
C8_Claimed ==
    rsi_out # << >> =>
        \A i \in (RSI_LEN + 1)..Len(rsi_in) :
            /\ IsConstant(rsi_in) => rsi_out[i] = F(50)
            /\ NoLossAt(rsi_in, i) =>
                   IsNum(rsi_out[i]) /\ FLe(F(0), rsi_out[i]) /\ FLe(rsi_out[i], F(100))

\* rsi returned an undefined value past the warm-up of a constant series
C8_Reached ==
    /\ rsi_out # << >> /\ IsConstant(rsi_in)
    /\ isna(rsi_out[Len(rsi_in)])

====
